---- MODULE Spec2Model ----
(***************************************************************************)
(* A model of daily_finance_mail.py: one run of main() after another over  *)
(* the persisted history file, and the pure text normaliser                *)
(* clean_json_response over bounded texts.                                 *)
(*                                                                         *)
(* Python values are modelled as follows.                                  *)
(*   - an optional string (a value or None) is a sequence of length <= 1:  *)
(*     <<>> is None, <<s>> is the string s;                                *)
(*   - a text handled character by character is a sequence of one-char     *)
(*     strings;                                                            *)
(*   - a JSON value read from the history file is [t, recs]: t names its   *)
(*     Python type, recs its records when it is a list;                    *)
(*   - the parsed model response is [t, keys, topic, subject, html_body,   *)
(*     chart_config].                                                      *)
(***************************************************************************)
EXTENDS Integers, Sequences, FiniteSets, TLC

VARIABLES
    file,          \* content of HISTORY_FILE on disk
    today,         \* the calendar date datetime.now() yields
    runs,          \* number of runs of main() started so far
    pc,            \* position of the current run inside main()
    history,       \* main's local `history`
    prompt,        \* what get_content_from_llm puts of the history in its prompt
    content_data,  \* main's local `content_data`
    topic,         \* main's local `topic`
    chart_url,     \* main's local `chart_url`
    final_html,    \* main's local `final_html`
    exit_code,     \* process exit status, -1 while the run is going
    log,           \* the calls the current run has made, in order
    delivered,     \* messages the SMTP server accepted in the current run
    fileAtStart,   \* content of HISTORY_FILE when the current run started
    text,          \* input of clean_json_response
    cleaned,       \* its result
    cpc            \* "in" before clean_json_response is applied, "out" after

vars == <<file, today, runs, pc, history, prompt, content_data, topic, chart_url,
          final_html, exit_code, log, delivered, fileAtStart, text, cleaned, cpc>>

mainVars == <<file, today, runs, pc, history, prompt, content_data, topic, chart_url,
              final_html, exit_code, log, delivered, fileAtStart>>

cleanVars == <<text, cleaned, cpc>>

----------------------------------------------------------------------------
(* Bounds of the model *)

MaxRuns == 2

MaxInitLen == 2

MaxDay == 2

MaxPieces == 5

----------------------------------------------------------------------------
(* Values *)

None == <<>>

Some(s) == <<s>>

\* Python truthiness of an optional string
TruthyStr(o) == o # None /\ o[1] # ""

Topics == {"A", "B"}

DefaultTopic == "Finance Topic"

Record(d, t) == [date |-> d, topic |-> t]

\* what json.load / the file can hold
FileOf(k, rs) == [kind |-> k, recs |-> rs]

PyVal(t, rs) == [t |-> t, recs |-> rs]

EmptyList == PyVal("list", <<>>)

SeqsUpTo(S, n) == UNION {[1..k -> S] : k \in 0..n}

\* The files a run may find: none, a history this program wrote, content
\* json.load rejects (JSONDecodeError), bytes the text decoder rejects
\* (UnicodeDecodeError), and valid JSON that is not a list of records.
InitFiles ==
    {FileOf(k, <<>>) : k \in {"absent", "bad_json", "bad_bytes", "str_empty", "null", "object"}}
    \cup {FileOf("list", rs) : rs \in SeqsUpTo({Record(0, t) : t \in Topics}, MaxInitLen)}

\* The records a file holds: those of the list it parses to, none otherwise.
Recs(f) == IF f.kind = "list" THEN f.recs ELSE <<>>

IsPrefix(s, t) == Len(s) <= Len(t) /\ SubSeq(t, 1, Len(s)) = s

----------------------------------------------------------------------------
(* History store *)

\* load_history that starts every run from an empty history
load_history_forgetful(f) ==
    [raised |-> f.kind = "bad_bytes", value |-> EmptyList]

\* lines 25-33: [raised, value]. json.load returns whatever JSON value the
\* file holds; only JSONDecodeError is caught.
load_history(f) ==
    IF f.kind = "absent" THEN [raised |-> FALSE, value |-> EmptyList]
    ELSE IF f.kind = "bad_json" THEN [raised |-> FALSE, value |-> EmptyList]
    ELSE IF f.kind = "bad_bytes" THEN [raised |-> TRUE, value |-> EmptyList]
    ELSE IF f.kind = "list" THEN [raised |-> FALSE, value |-> PyVal("list", f.recs)]
    ELSE IF f.kind = "str_empty" THEN [raised |-> FALSE, value |-> PyVal("str", <<>>)]
    ELSE IF f.kind = "null" THEN [raised |-> FALSE, value |-> PyVal("none", <<>>)]
    ELSE [raised |-> FALSE, value |-> PyVal("dict", <<>>)]

\* save_history that inserts the new record at the front
save_history_prepending(tp, h, f, day) ==
    IF h.t = "list"
    THEN LET h2 == PyVal("list", <<Record(day, tp)>> \o h.recs)
         IN [raised |-> FALSE, history |-> h2, file |-> FileOf("list", h2.recs)]
    ELSE [raised |-> TRUE, history |-> h, file |-> f]

\* lines 35-39: [raised, history, file]; `.append` exists on lists only, and
\* the whole list is dumped over the file
save_history(tp, h, f, day) ==
    IF h.t = "list"
    THEN LET h2 == PyVal("list", Append(h.recs, Record(day, tp)))
         IN [raised |-> FALSE, history |-> h2, file |-> FileOf("list", h2.recs)]
    ELSE [raised |-> TRUE, history |-> h, file |-> f]

----------------------------------------------------------------------------
(* Curriculum advisor *)

Keys == {"topic", "subject", "html_body", "chart_config"}

Content(t, ks, tp, sj, hb, cc) ==
    [t |-> t, keys |-> ks, topic |-> tp, subject |-> sj, html_body |-> hb, chart_config |-> cc]

\* Python's None as content_data
NoContent == Content("none", {}, None, None, None, None)

\* The JSON objects the model may answer with: every subset of the four
\* keys; html_body, when present, may be null.
Dicts ==
    {Content("dict", ks,
             IF "topic" \in ks THEN Some(tp) ELSE None,
             IF "subject" \in ks THEN Some("S") ELSE None,
             IF "html_body" \in ks THEN hb ELSE None,
             IF "chart_config" \in ks THEN Some("cfg") ELSE None) :
        ks \in SUBSET Keys, tp \in Topics, hb \in {None, Some("<p>body</p>")}}

\* What json.loads may return: an object, or another JSON value, truthy
\* (a non-empty list or string, a number) or falsy (null, [], 0, "", false).
ParsedValues ==
    Dicts \cup {Content("other_truthy", {}, None, None, None, None),
                Content("other_falsy", {}, None, None, None, None)}

\* One attempt of the loop body: generate_content raises, json.loads of the
\* cleaned text raises, or a value is parsed.
LLMOutcomes ==
    {[kind |-> "raise", value |-> NoContent], [kind |-> "unparsable", value |-> NoContent]}
    \cup {[kind |-> "parsed", value |-> v] : v \in ParsedValues}

\* Python truthiness of content_data
Truthy(c) == c.t = "other_truthy" \/ (c.t = "dict" /\ c.keys # {})

\* dict.get(k, default)
get(c, k, default) == IF k \in c.keys THEN c[k] ELSE default

\* a list of two models, the second tried when the first fails
models_to_try_two == <<"gemini-2.5-flash", "gemini-2.5-pro">>

\* line 102
models_to_try == <<"gemini-2.5-flash">>

RecentWindow == 10

\* lines 56-58: the last topic taught, or the sentinel
last_topic(h) ==
    IF h.t = "list" /\ Len(h.recs) > 0
    THEN h.recs[Len(h.recs)].topic
    ELSE "None (This is the very first email)"

\* line 60: the topics of past_topics[-10:]
recent_history(h) ==
    LET n == Len(h.recs)
        from == IF n > RecentWindow THEN n - RecentWindow + 1 ELSE 1
    IN [i \in 1..(n - from + 1) |-> h.recs[from + i - 1].topic]

\* lines 56-60 raise (outside the try) when past_topics is not sliceable:
\* None[-10:] and {}[-10:] raise, ""[-10:] and a list do not.
prompt_raises(h) == h.t \in {"none", "dict"}

RECURSIVE first_parsed(_, _)
\* the index of the first attempt that returns, 0 when every attempt fails
first_parsed(outs, i) ==
    IF i > Len(outs) THEN 0
    ELSE IF outs[i].kind = "parsed" THEN i
    ELSE first_parsed(outs, i + 1)

\* get_content_from_llm that answers with stock content when every model failed
get_content_from_llm_fallback(outs) ==
    LET i == first_parsed(outs, 1)
    IN [value |-> IF i = 0 THEN Content("dict", {"topic"}, Some("A"), None, None, None)
                  ELSE outs[i].value,
        calls |-> IF i = 0 THEN Len(outs) ELSE i]

\* lines 102-115: [value, calls]: the first parsed value, None when every
\* model failed, and the number of generate_content calls made
get_content_from_llm(outs) ==
    LET i == first_parsed(outs, 1)
    IN [value |-> IF i = 0 THEN NoContent ELSE outs[i].value,
        calls |-> IF i = 0 THEN Len(outs) ELSE i]

----------------------------------------------------------------------------
(* Chart renderer *)

ChartOutcomes == {"conn_error", "http_error", "not_json", "no_url", "url_empty", "ok"}

\* lines 117-125: [raised, url]; the bare except turns every failure into None
get_chart_url(o) ==
    [raised |-> FALSE,
     url |-> IF o = "ok" THEN Some("U")
             ELSE IF o = "url_empty" THEN Some("")
             ELSE None]

----------------------------------------------------------------------------
(* Message composer *)

\* an f-string's rendering of an optional string
Str(o) == IF o = None THEN "None" ELSE o[1]

\* a body section that renders an absent body as the empty string
body_section_blank(c) == IF get(c, "html_body", None) = None THEN "" ELSE get(c, "html_body", None)[1]

\* line 182: the body section of the document
body_section(c) == Str(get(c, "html_body", None))

\* lines 170-172: the image block, <<>> being the empty string
chart_html(u) == IF TruthyStr(u) THEN <<"img", u[1]>> ELSE <<>>

\* lines 174-188
compose(c, u, day) ==
    [date |-> day, chart_html |-> chart_html(u), body |-> body_section(c)]

NoDocument == [date |-> 0, chart_html |-> <<>>, body |-> ""]

----------------------------------------------------------------------------
(* Delivery channel *)

SendOutcomes == {"connect_fail", "starttls_fail", "login_fail", "recipients_fail",
                 "sendmail_fail", "quit_fail", "ok"}

\* send_email that prints the failure and returns
send_email_swallowing(o) == [raised |-> FALSE, accepted |-> o \in {"quit_fail", "ok"}]

\* lines 139-155: [raised, accepted]; every exception is printed and re-raised
send_email(o) == [raised |-> o # "ok", accepted |-> o \in {"quit_fail", "ok"}]

----------------------------------------------------------------------------
(* Content normaliser *)

\* the backquote character, U+0060
Backquote == "BQ"

Fence == <<Backquote, Backquote, Backquote>>

FenceJson == Fence \o <<"j", "s", "o", "n">>

\* the characters str.strip() removes
Whitespace == {" ", "\n"}

RECURSIVE lstrip(_)
lstrip(s) ==
    IF s # <<>> /\ Head(s) \in Whitespace THEN lstrip(Tail(s)) ELSE s

RECURSIVE rstrip(_)
rstrip(s) ==
    IF s # <<>> /\ s[Len(s)] \in Whitespace THEN rstrip(SubSeq(s, 1, Len(s) - 1)) ELSE s

\* str.strip()
strip(s) == rstrip(lstrip(s))

\* str.startswith / str.endswith
startswith(s, p) == Len(s) >= Len(p) /\ SubSeq(s, 1, Len(p)) = p

endswith(s, p) == Len(s) >= Len(p) /\ SubSeq(s, Len(s) - Len(p) + 1, Len(s)) = p

\* p in s
contains(s, p) == \E i \in 1..(Len(s) - Len(p) + 1) : SubSeq(s, i, i + Len(p) - 1) = p

\* clean_json_response with the two prefix tests in the other order
clean_json_response_bare_first(raw) ==
    LET t0 == strip(raw)
        t1 == IF startswith(t0, Fence) THEN SubSeq(t0, 4, Len(t0))
              ELSE IF startswith(t0, FenceJson) THEN SubSeq(t0, 8, Len(t0))
              ELSE t0
        t2 == IF endswith(t1, Fence) THEN SubSeq(t1, 1, Len(t1) - 3) ELSE t1
    IN strip(t2)

\* clean_json_response testing for a fence anywhere in the text
clean_json_response_anywhere(raw) ==
    LET t0 == strip(raw)
        t1 == IF contains(t0, FenceJson) THEN SubSeq(t0, 8, Len(t0))
              ELSE IF contains(t0, Fence) THEN SubSeq(t0, 4, Len(t0))
              ELSE t0
        t2 == IF contains(t1, Fence) THEN SubSeq(t1, 1, Len(t1) - 3) ELSE t1
    IN strip(t2)

\* lines 41-50: text[7:] and text[3:] drop the leading fence, text[:-3]
\* the trailing one
clean_json_response(raw) ==
    LET t0 == strip(raw)
        t1 == IF startswith(t0, FenceJson) THEN SubSeq(t0, 8, Len(t0))
              ELSE IF startswith(t0, Fence) THEN SubSeq(t0, 4, Len(t0))
              ELSE t0
        t2 == IF endswith(t1, Fence) THEN SubSeq(t1, 1, Len(t1) - 3) ELSE t1
    IN strip(t2)

\* The texts clean_json_response is applied to: up to MaxPieces pieces, each
\* a fence, the tag, a whitespace character, a backtick or a payload
\* character.
Pieces == {Fence, <<"j", "s", "o", "n">>, <<" ">>, <<"\n">>, <<Backquote>>, <<"x">>}

RECURSIVE Flatten(_)
Flatten(ps) == IF ps = <<>> THEN <<>> ELSE Head(ps) \o Flatten(Tail(ps))

Texts == {Flatten(ps) : ps \in SeqsUpTo(Pieces, MaxPieces)}

----------------------------------------------------------------------------
(* main(): one action per call it makes, with the statements that follow it *)

NoPrompt == [last_topic |-> "", recent |-> <<>>]

Call(c, ok) == [call |-> c, ok |-> ok]

RunStart(f) ==
    /\ pc = "start"
    /\ history = EmptyList
    /\ prompt = NoPrompt
    /\ content_data = NoContent
    /\ topic = None
    /\ chart_url = None
    /\ final_html = NoDocument
    /\ exit_code = -1
    /\ log = <<>>
    /\ delivered = 0
    /\ fileAtStart = f

CleanIdle == text = <<>> /\ cleaned = <<>> /\ cpc = "idle"

Init ==
    /\ file \in InitFiles
    /\ today = 1
    /\ runs = 1
    /\ RunStart(file)
    /\ CleanIdle

\* the run ends: by exit(code), by an uncaught exception (status 1), or by
\* main returning (status 0)
Exit(code) == pc' = "done" /\ exit_code' = code

\* line 158
LoadHistory ==
    /\ pc = "start"
    /\ LET r == load_history(file)
       IN /\ log' = Append(log, Call("load", ~r.raised))
          /\ IF r.raised
             THEN Exit(1) /\ UNCHANGED history
             ELSE pc' = "generate" /\ history' = r.value /\ UNCHANGED exit_code
    /\ UNCHANGED <<file, today, runs, prompt, content_data, topic, chart_url,
                   final_html, delivered, fileAtStart, cleanVars>>

\* lines 159-165: get_content_from_llm, the `if not content_data` exit, and
\* the topic lookup, which raises on a value that is not an object
GetContent ==
    /\ pc = "generate"
    /\ IF prompt_raises(history)
       THEN Exit(1) /\ UNCHANGED <<prompt, content_data, topic, log>>
       ELSE \E outs \in [1..Len(models_to_try) -> LLMOutcomes] :
              LET r == get_content_from_llm(outs)
              IN /\ prompt' = [last_topic |-> last_topic(history),
                               recent |-> recent_history(history)]
                 /\ log' = log \o [i \in 1..r.calls |-> Call("llm", outs[i].kind = "parsed")]
                 /\ content_data' = r.value
                 /\ IF ~Truthy(r.value)
                    THEN Exit(1) /\ UNCHANGED topic
                    ELSE IF r.value.t # "dict"
                    THEN Exit(1) /\ UNCHANGED topic
                    ELSE /\ topic' = get(r.value, "topic", Some(DefaultTopic))
                         /\ pc' = "chart"
                         /\ UNCHANGED exit_code
    /\ UNCHANGED <<file, today, runs, history, chart_url, final_html, delivered,
                   fileAtStart, cleanVars>>

\* lines 166-188: the chart call when there is a chart_config, and the
\* composition of the document
RenderChart ==
    /\ pc = "chart"
    /\ IF "chart_config" \in content_data.keys
       THEN \E o \in ChartOutcomes :
              LET r == get_chart_url(o)
              IN /\ log' = Append(log, Call("chart", o \in {"ok", "url_empty"}))
                 /\ IF r.raised
                    THEN Exit(1) /\ UNCHANGED <<chart_url, final_html>>
                    ELSE /\ chart_url' = r.url
                         /\ final_html' = compose(content_data, r.url, today)
                         /\ pc' = "send"
                         /\ UNCHANGED exit_code
       ELSE /\ final_html' = compose(content_data, None, today)
            /\ pc' = "send"
            /\ UNCHANGED <<chart_url, log, exit_code>>
    /\ UNCHANGED <<file, today, runs, history, prompt, content_data, topic,
                   delivered, fileAtStart, cleanVars>>

\* line 190
SendEmail ==
    /\ pc = "send"
    /\ \E o \in SendOutcomes :
         LET r == send_email(o)
         IN /\ log' = Append(log, Call("send", o = "ok"))
            /\ delivered' = delivered + (IF r.accepted THEN 1 ELSE 0)
            /\ IF r.raised THEN Exit(1) ELSE pc' = "save" /\ UNCHANGED exit_code
    /\ UNCHANGED <<file, today, runs, history, prompt, content_data, topic,
                   chart_url, final_html, fileAtStart, cleanVars>>

\* line 191, then main returns
SaveHistory ==
    /\ pc = "save"
    /\ LET r == save_history(topic[1], history, file, today)
       IN /\ log' = Append(log, Call("save", ~r.raised))
          /\ history' = r.history
          /\ file' = r.file
          /\ Exit(IF r.raised THEN 1 ELSE 0)
    /\ UNCHANGED <<today, runs, prompt, content_data, topic, chart_url,
                   final_html, delivered, fileAtStart, cleanVars>>

\* the next invocation of the script, a fresh process over the same file
NextRun ==
    /\ pc = "done"
    /\ runs < MaxRuns
    /\ runs' = runs + 1
    /\ pc' = "start"
    /\ history' = EmptyList
    /\ prompt' = NoPrompt
    /\ content_data' = NoContent
    /\ topic' = None
    /\ chart_url' = None
    /\ final_html' = NoDocument
    /\ exit_code' = -1
    /\ log' = <<>>
    /\ delivered' = 0
    /\ fileAtStart' = file
    /\ UNCHANGED <<file, today, cleanVars>>

\* the calendar date moves on, at any point of a run or between runs
Tick ==
    /\ today < MaxDay
    /\ today' = today + 1
    /\ UNCHANGED <<file, runs, pc, history, prompt, content_data, topic, chart_url,
                   final_html, exit_code, log, delivered, fileAtStart, cleanVars>>

Next ==
    \/ LoadHistory
    \/ GetContent
    \/ RenderChart
    \/ SendEmail
    \/ SaveHistory
    \/ NextRun
    \/ Tick

Spec == Init /\ [][Next]_vars

----------------------------------------------------------------------------
(* clean_json_response over the bounded texts *)

InitClean ==
    /\ file = FileOf("absent", <<>>)
    /\ today = 1
    /\ runs = 1
    /\ RunStart(file)
    /\ text \in Texts
    /\ cleaned = <<>>
    /\ cpc = "in"

Clean ==
    /\ cpc = "in"
    /\ cleaned' = clean_json_response(text)
    /\ cpc' = "out"
    /\ UNCHANGED <<text, mainVars>>

NextClean == Clean

SpecClean == InitClean /\ [][NextClean]_vars

----------------------------------------------------------------------------
(* What the log of a run says *)

Called(c) == \E i \in DOMAIN log : log[i].call = c

Ok(c) == \E i \in DOMAIN log : log[i].call = c /\ log[i].ok

Count(c) == Cardinality({i \in DOMAIN log : log[i].call = c})

\* every generation attempt of the run failed
GenFailed == Called("llm") /\ ~Ok("llm")

\* the chart call was made and gave no url
ChartFailed == Called("chart") /\ ~Ok("chart")

SendFailed == Called("send") /\ ~Ok("send")

\* the document has been composed
Composed == pc \in {"send", "save"} \/ Called("send")

Rank(c) ==
    IF c = "load" THEN 1
    ELSE IF c = "llm" THEN 2
    ELSE IF c = "chart" THEN 3
    ELSE IF c = "send" THEN 4
    ELSE 5

----------------------------------------------------------------------------
(* Claims about a run of main() *)

\* C1: when every generation attempt fails (the call raises or the cleaned
\* response does not parse), the run is over with a non-zero exit status,
\* send_email and save_history were never called, no message was accepted,
\* and the history file is what it was when the run started.
C1_GenerationFailureIsFatal ==
    GenFailed =>
        /\ pc = "done"
        /\ exit_code > 0
        /\ ~Called("send")
        /\ ~Called("save")
        /\ delivered = 0
        /\ file = fileAtStart

C1_Witness ==
    /\ pc = "done"
    /\ GenFailed
    /\ Len(Recs(fileAtStart)) > 0

\* C2: save_history is called only after send_email returned; a failed
\* delivery ends the run with a non-zero exit status after exactly one
\* send_email call, without save_history, the file unchanged; a changed
\* file implies a successful delivery in the same run.
C2_HistoryOnlyAfterDelivery ==
    /\ Called("save") => Ok("send")
    /\ file # fileAtStart => Ok("send")
    /\ SendFailed =>
        /\ pc = "done"
        /\ exit_code > 0
        /\ Count("send") = 1
        /\ ~Called("save")
        /\ file = fileAtStart

C2_Witness ==
    /\ pc = "done"
    /\ SendFailed
    /\ delivered = 0

\* C3: after a successful generation, a failed chart call leaves no chart
\* url and no image block, the run goes on to send_email, and a successful
\* delivery is followed by one more record in the history file.
C3_ChartFailureAbsorbed ==
    ChartFailed =>
        /\ chart_url = None
        /\ Composed => final_html.chart_html = <<>>
        /\ pc = "done" => Called("send")
        /\ (pc = "done" /\ Ok("send")) =>
              /\ Len(Recs(file)) = Len(Recs(fileAtStart)) + 1
              /\ Recs(file)[Len(Recs(file))].topic = topic[1]

\* C4: load_history never raises, and returns the empty list for a missing
\* file and for every file that does not hold a stored history.
C4_LoadFailsSoft ==
    pc # "start" =>
        /\ Ok("load")
        /\ fileAtStart.kind # "list" => history.t = "list"
        /\ (fileAtStart.kind # "list" /\ ~Called("save")) => history = EmptyList

\* C5: the records of the history file only grow at the end: every step
\* keeps the records in place and adds at most one after them, and within a
\* run the file extends the file of the run's start by at most one record.
C5_AppendOnly ==
    /\ [](/\ IsPrefix(Recs(fileAtStart), Recs(file))
          /\ Len(Recs(file)) <= Len(Recs(fileAtStart)) + 1)
    /\ [][/\ IsPrefix(Recs(file), Recs(file'))
          /\ Len(Recs(file')) <= Len(Recs(file)) + 1]_vars

C5_Witness ==
    /\ runs = MaxRuns
    /\ Ok("save")
    /\ Len(Recs(file)) = MaxInitLen + MaxRuns

\* C6: a save_history call on a list history writes to the file the list
\* one longer: the previous records in order, then a record with the given
\* topic and the current date; the in-memory history is that same list.
C6_SaveAppendsOne ==
    [][(pc = "save" /\ pc' = "done" /\ history.t = "list") =>
          /\ file'.kind = "list"
          /\ Len(file'.recs) = Len(history.recs) + 1
          /\ SubSeq(file'.recs, 1, Len(history.recs)) = history.recs
          /\ file'.recs[Len(file'.recs)] = Record(today, topic[1])
          /\ history'.recs = file'.recs]_vars

C6_Witness ==
    /\ pc = "done"
    /\ Ok("save")
    /\ Len(Recs(file)) >= 2
    /\ Recs(file)[1].topic # Recs(file)[Len(Recs(file))].topic

\* C9: a composed document whose content has no html_body carries the text
\* "None" in its body section, never an empty one, and a document composed
\* without a usable chart url has no image block.
C9_AbsentBodyPlaceholder ==
    Composed =>
        /\ "html_body" \notin content_data.keys =>
              final_html.body = "None" /\ final_html.body # ""
        /\ ~TruthyStr(chart_url) => final_html.chart_html = <<>>

C9_Witness ==
    /\ Composed
    /\ "html_body" \notin content_data.keys
    /\ chart_url = None
    /\ Ok("send")

\* C10: the calls of a run are made in the order load, generate, chart,
\* send, save, each at most once; the load comes first and exactly once;
\* save_history is called only after send_email and ends the run; no run
\* has more than one message accepted or more than one record added.
C10_SingleOrderedPass ==
    /\ \A i, j \in DOMAIN log : i < j => Rank(log[i].call) < Rank(log[j].call)
    /\ pc # "start" => (Count("load") = 1 /\ log[1].call = "load")
    /\ pc = "start" => log = <<>>
    /\ Called("save") => (Called("send") /\ pc = "done")
    /\ delivered <= 1
    /\ Len(Recs(file)) <= Len(Recs(fileAtStart)) + 1

C10_Witness ==
    /\ pc = "done"
    /\ Len(log) = 5
    /\ Ok("save")

----------------------------------------------------------------------------
(* Claims about clean_json_response *)

\* the leading fence the code recognises at the start of a trimmed text
Lead(t) == IF startswith(t, FenceJson) THEN FenceJson ELSE Fence

\* a trimmed text is wrapped: a leading fence, an interior, a trailing fence
Wrapped(t) ==
    /\ startswith(t, Fence)
    /\ endswith(t, Fence)
    /\ Len(t) >= Len(Lead(t)) + Len(Fence)

\* what lies between the two fences of a wrapped text
Interior(t) == SubSeq(t, Len(Lead(t)) + 1, Len(t) - Len(Fence))

NoFenceAtEnds(t) == ~startswith(t, Fence) /\ ~endswith(t, Fence)

\* C7, as claimed: for every wrapped text the result is the trimmed
\* interior and neither begins nor ends with a fence.
C7_AsClaimed ==
    (cpc = "out" /\ Wrapped(strip(text))) =>
        /\ cleaned = strip(Interior(strip(text)))
        /\ NoFenceAtEnds(cleaned)

\* C7, amended: for every wrapped text the result is the trimmed interior,
\* one fence removed at each end and no more; it is free of fences at its
\* ends whenever the trimmed interior is.
C7_StripsOneLayer ==
    (cpc = "out" /\ Wrapped(strip(text))) =>
        /\ cleaned = strip(Interior(strip(text)))
        /\ NoFenceAtEnds(strip(Interior(strip(text)))) => NoFenceAtEnds(cleaned)

C7_Witness ==
    /\ cpc = "out"
    /\ Wrapped(strip(text))
    /\ Lead(strip(text)) = FenceJson
    /\ text # strip(text)
    /\ cleaned = <<"x">>

\* C8, as claimed: for every text that is not wrapped the result is the
\* trimmed text.
C8_AsClaimed ==
    (cpc = "out" /\ ~Wrapped(strip(text))) => cleaned = strip(text)

\* C8, amended: for every text whose trimmed form neither begins nor ends
\* with a fence the result is the trimmed text, fences inside it included.
C8_UnfencedUnchanged ==
    (cpc = "out" /\ NoFenceAtEnds(strip(text))) => cleaned = strip(text)

C8_Witness ==
    /\ cpc = "out"
    /\ NoFenceAtEnds(strip(text))
    /\ contains(text, FenceJson)
    /\ text # strip(text)
    /\ cleaned = strip(text)

====
